---- MODULE Spec2Model ----
(***************************************************************************)
(* Model of analyze_diag.py: the Analyzer rule set (check), the hot-thread *)
(* block extractor inside check_hot_threads, and the report partition      *)
(* (render).  Findings are the Result objects appended to the class-level  *)
(* list Analyzer.results.                                                  *)
(***************************************************************************)
EXTENDS Integers, Sequences, FiniteSets, TLC

(* ---------- bounds of the model ---------- *)
MaxLines == 6      \* longest enumerated hot-thread dump (lines)
MaxRuns == 2       \* check() calls per process
MaxNodes == 2      \* nodes in nodes_stats.json
MaxFields == 3     \* entries of one index's mappings object

(* ---------- text: lines are sequences of one-character strings ---------- *)
Whitespace == {" ", "\t", "\n", "\r"}
Digits == {"0", "1", "2", "3", "4", "5", "6", "7", "8", "9"}

RECURSIVE lstrip(_)
lstrip(s) == IF s # <<>> /\ Head(s) \in Whitespace THEN lstrip(Tail(s)) ELSE s

RECURSIVE rstrip(_)
rstrip(s) ==
  IF s # <<>> /\ s[Len(s)] \in Whitespace THEN rstrip(SubSeq(s, 1, Len(s) - 1)) ELSE s

\* str.strip()
strip(s) == rstrip(lstrip(s))

\* bad_re = re.compile(r"^\s*9\d.\d\%"); bad_re.match(l)
bad_re_match(l) ==
  LET t == lstrip(l)
  IN  /\ Len(t) >= 5
      /\ t[1] = "9"
      /\ t[2] \in Digits
      /\ t[3] # "\n"
      /\ t[4] \in Digits
      /\ t[5] = "%"

\* any(xs) over a list of strings: some element is a non-empty string
any_str(xs) == \E k \in 1..Len(xs) : xs[k] # <<>>

\* xs[:n]
Take(xs, n) == SubSeq(xs, 1, IF Len(xs) < n THEN Len(xs) ELSE n)

\* the slice bound of bad_lines[:10]
BlockLimit == 10

(* ---------- the loop body of check_hot_threads, one line ---------- *)
\* st = [hot_threads, bad_lines, bad_block], the locals of the loop
\* a loop body whose hot-header branch keeps the open buffer instead of restarting it
LoopBody_keep(st, l) ==
  IF strip(l) = <<>> /\ any_str(st.bad_lines)
    THEN [st EXCEPT !.hot_threads = Append(@, Take(st.bad_lines, BlockLimit))]
  ELSE IF bad_re_match(l)
    THEN [st EXCEPT !.bad_lines = Append(@, strip(l)), !.bad_block = TRUE]
  ELSE IF st.bad_block
    THEN [st EXCEPT !.bad_lines = Append(@, strip(l))]
  ELSE st

LoopBody(st, l) ==
  IF strip(l) = <<>> /\ any_str(st.bad_lines)
    THEN [st EXCEPT !.hot_threads = Append(@, Take(st.bad_lines, BlockLimit))]
  ELSE IF bad_re_match(l)
    THEN [st EXCEPT !.bad_lines = <<strip(l)>>, !.bad_block = TRUE]
  ELSE IF st.bad_block
    THEN [st EXCEPT !.bad_lines = Append(@, strip(l))]
  ELSE st

LoopInit == [hot_threads |-> <<>>, bad_lines |-> <<>>, bad_block |-> FALSE]

RECURSIVE ScanFrom(_, _, _)
ScanFrom(st, ls, k) ==
  IF k > Len(ls) THEN st ELSE ScanFrom(LoopBody(st, ls[k]), ls, k + 1)

\* the whole for-loop over hot_threads_raw
Scan(ls) == ScanFrom(LoopInit, ls, 1)

(* ---------- Result objects ---------- *)
None == "None"

Result(message, code, isbad, value) ==
  [message |-> message, code |-> code, bad |-> isbad, value |-> value]

is_bad(r) == r.bad
is_good(r) == ~r.bad

\* a quotient a / b that the code computes as a float, kept exact
Ratio(a, b) == <<a, b>>

(* ---------- byte counts ---------- *)
\* Analyzer.GB = 1024 * 1024 * 1024
GB == 1073741824

\* a byte count gib * GB + rem with 0 <= rem < GB (the counts of a bundle
\* exceed 32 bits, so they are kept split)
Bytes(gib, rem) == [gib |-> gib, rem |-> rem]

\* b / GB < k, for an integer k
BelowGB(b, k) == b.gib < k

\* b / GB > k, for an integer k
AboveGB(b, k) == b.gib > k \/ (b.gib = k /\ b.rem > 0)

(* ---------- outcome of one rule: what it appended, and whether it raised ---------- *)
Outcome(raised, out, ch) == [raised |-> raised, out |-> out, charts |-> ch]

MapSeq(s, F(_)) == [k \in 1..Len(s) |-> F(s[k])]

\* "if xs: for x in xs: append(F(x))  else: append(ok)"
OnePerOffender(xs, F(_), ok) == IF xs # <<>> THEN MapSeq(xs, F) ELSE <<ok>>

RECURSIVE SumSeq(_)
SumSeq(s) == IF s = <<>> THEN 0 ELSE Head(s) + SumSeq(Tail(s))

\* str.upper() on the health statuses
upper(s) ==
  CASE s = "green" -> "GREEN"
    [] s = "yellow" -> "YELLOW"
    [] s = "red" -> "RED"
    [] OTHER -> s

(* ---------- rules over cluster_health.json ---------- *)
check_cluster_health(b) ==
  LET st == b.cluster_health.status
  IN  IF st # "green"
        THEN Outcome(FALSE, <<Result(<<"Cluster is: %s", upper(st)>>, "CLUSTER_HEALTH", TRUE, st)>>, <<>>)
        ELSE Outcome(FALSE, <<Result(<<"Cluster is: GREEN">>, "CLUSTER_HEALTH", FALSE, st)>>, <<>>)

check_unassigned_shards(b) ==
  LET u == b.cluster_health.unassigned_shards
  IN  IF u > 0
        THEN Outcome(FALSE, <<Result(<<"There are %d unassigned shards in the cluster", u>>,
                                     "UNASSIGNED_SHARDS", TRUE, u)>>, <<>>)
        ELSE Outcome(FALSE, <<Result(<<"There are no unassigned shards in the cluster">>,
                                     "UNASSIGNED_SHARDS", FALSE, None)>>, <<>>)

(* ---------- rules over nodes_stats.json ---------- *)
\* the HIGH_CPU_USAGE block (lines 555-576, repeated at 689-710)
CpuFindings(b) ==
  OnePerOffender(SelectSeq(b.nodes_stats, LAMBDA n : n.cpu_percent > 80),
                 LAMBDA n : Result(<<"High CPU usage on node %s: %d%%", n.name, n.cpu_percent>>,
                                   "HIGH_CPU_USAGE", TRUE, n.cpu_percent),
                 Result(<<"CPU usage is within acceptable limits on all nodes">>,
                        "HIGH_CPU_USAGE", FALSE, None))

check_cpu_usage(b) == Outcome(FALSE, CpuFindings(b), <<>>)

check_memory_usage(b) ==
  LET mem == OnePerOffender(SelectSeq(b.nodes_stats, LAMBDA n : n.mem_used_percent > 80),
                 LAMBDA n : Result(<<"High memory usage on node %s: %d%%", n.name, n.mem_used_percent>>,
                                   "HIGH_MEMORY_USAGE", TRUE, n.mem_used_percent),
                 Result(<<"Memory usage is within acceptable limits on all nodes">>,
                        "HIGH_MEMORY_USAGE", FALSE, None))
      io == OnePerOffender(SelectSeq(b.nodes_stats, LAMBDA n : n.operations > 1000000),
                 LAMBDA n : Result(<<"High disk I/O on node %s: %d operations", n.name, n.operations>>,
                                   "HIGH_DISK_IO", TRUE, n.operations),
                 Result(<<"Disk I/O is within acceptable limits on all nodes">>,
                        "HIGH_DISK_IO", FALSE, None))
  IN  Outcome(FALSE, mem \o io, <<>>)

check_jvm_heap_usage(b) ==
  Outcome(FALSE,
    OnePerOffender(SelectSeq(b.nodes_stats, LAMBDA n : n.heap_used_percent > 75),
                 LAMBDA n : Result(<<"High JVM heap usage on node %s: %d%%", n.name, n.heap_used_percent>>,
                                   "HIGH_JVM_HEAP_USAGE", TRUE, n.heap_used_percent),
                 Result(<<"JVM heap usage is within acceptable limits on all nodes">>,
                        "HIGH_JVM_HEAP_USAGE", FALSE, None)),
    <<>>)

check_disk_usage(b) ==
  Outcome(FALSE,
    OnePerOffender(SelectSeq(b.nodes_stats, LAMBDA n : BelowGB(n.available_in_bytes, 10)),
                 LAMBDA n : Result(<<"Low disk space on node %s: %.2f GB free", n.name, n.available_in_bytes>>,
                                   "LOW_DISK_SPACE", TRUE, n.available_in_bytes),
                 Result(<<"Disk space is within acceptable limits on all nodes">>,
                        "LOW_DISK_SPACE", FALSE, None)),
    <<>>)

\* free_in_bytes / total_in_bytes * 100 < 15; the fs totals of the bundles
\* drawn here are whole GB, for which the comparison in GB is exact
FreeBelow15(n) == n.free_in_bytes.gib * 100 < 15 * n.total_in_bytes.gib

\* total_in_bytes == 0 makes the division raise ZeroDivisionError
ZeroTotal(n) == n.total_in_bytes.gib = 0 /\ n.total_in_bytes.rem = 0

check_disk_watermark(b) ==
  IF \E k \in 1..Len(b.nodes_stats) : ZeroTotal(b.nodes_stats[k])
    THEN Outcome(TRUE, <<>>, <<>>)
    ELSE Outcome(FALSE,
           OnePerOffender(SelectSeq(b.nodes_stats, FreeBelow15),
                 LAMBDA n : Result(<<"Disk usage on node %s has exceeded the high watermark: %d%% free",
                                     n.name, Ratio(n.free_in_bytes, n.total_in_bytes)>>,
                                   "DISK_WATERMARK_EXCEEDED", TRUE,
                                   Ratio(n.free_in_bytes, n.total_in_bytes)),
                 Result(<<"Disk usage is within acceptable limits on all nodes">>,
                        "DISK_WATERMARK_EXCEEDED", FALSE, None))
           \o CpuFindings(b),
           <<>>)

(* ---------- pending_tasks.json (optional artifact) ---------- *)
check_pending_tasks(b) ==
  IF ~b.pending_tasks.present THEN Outcome(FALSE, <<>>, <<>>)
  ELSE IF b.pending_tasks.tasks > 0
    THEN Outcome(FALSE, <<Result(<<"There are %d pending tasks in the cluster", b.pending_tasks.tasks>>,
                                 "PENDING_TASKS", TRUE, b.pending_tasks.tasks)>>, <<>>)
    ELSE Outcome(FALSE, <<Result(<<"There are no pending tasks in the cluster">>,
                                 "PENDING_TASKS", FALSE, None)>>, <<>>)

(* ---------- nodes.json ---------- *)
check_nodes(b) ==
  LET node_count == Len(b.nodes)
      compressed_oops_count ==
        Len(SelectSeq(b.nodes, LAMBDA n : n.using_compressed_ordinary_object_pointers = "true"))
  IN  IF compressed_oops_count < node_count
        THEN Outcome(FALSE, <<Result(<<"Compressed OOPs off for %s nodes out of %s",
                                       node_count - compressed_oops_count, node_count>>,
                                     "COMPRESSED_OOPS", TRUE, node_count - compressed_oops_count)>>, <<>>)
        ELSE Outcome(FALSE, <<Result(<<"Compressed OOPs on for all nodes">>,
                                     "COMPRESSED_OOPS", FALSE, None)>>, <<>>)

(* ---------- settings.json ---------- *)
\* truthiness of i["settings"]["index"].get("refresh_interval", "1s"):
\* an absent key gives "1s"; any non-empty string is truthy
RefreshTruthy(i) == IF i.refresh_interval = "absent" THEN TRUE ELSE i.refresh_interval # ""

check_settings(b) ==
  LET indices_count == Len(b.settings)
      refresh_1s_indices_count == Len(SelectSeq(b.settings, RefreshTruthy))
      pct == Ratio(refresh_1s_indices_count, indices_count)
  IN  IF indices_count = 0 THEN Outcome(TRUE, <<>>, <<>>)
      \* n / m > 0.1 in floats is 10 * n > m for these sizes
      ELSE IF 10 * refresh_1s_indices_count > indices_count
        THEN Outcome(FALSE,
               <<Result(<<"refresh_interval is default 1s for %s indices (%.2f%%), consider raising to 30s or 60s to speed up ingestion",
                          refresh_1s_indices_count, pct>>,
                        "REFRESH_INTERVAL", FALSE, refresh_1s_indices_count)>>, <<>>)
        ELSE Outcome(FALSE,
               <<Result(<<"refresh_interval is default 1s for %s indices (%.2f%%), that's ok",
                          refresh_1s_indices_count, pct>>,
                        "REFRESH_INTERVAL", FALSE, refresh_1s_indices_count)>>, <<>>)

\* int(index_settings.get("number_of_replicas", 1)) on the decimal strings of a bundle
int_of(str) ==
  CASE str = "0" -> 0
    [] str = "1" -> 1
    [] str = "2" -> 2
    [] OTHER -> 1

number_of_replicas(i) == IF i.number_of_replicas = "absent" THEN 1 ELSE int_of(i.number_of_replicas)

check_index_settings(b) ==
  Outcome(FALSE,
    MapSeq(SelectSeq(b.settings, LAMBDA i : number_of_replicas(i) < 1),
           LAMBDA i : Result(<<"Index %s has less than 1 replica", i.index>>,
                             "LOW_NUMBER_OF_REPLICAS", TRUE, number_of_replicas(i))),
    <<>>)

(* ---------- indices_stats.json ---------- *)
HoursResult(template, millis) ==
  Result(<<template, Ratio(millis, 3600000)>>, "DURATION", FALSE, Ratio(millis, 3600000))

check_indices(b) ==
  LET d == b.indices_stats
      values == <<d.count, d.deleted, Ratio(d.deleted * 100, d.count)>>
  IN  IF d.count = 0 THEN Outcome(TRUE, <<>>, <<>>)
      ELSE Outcome(FALSE,
             << Result(<<"Total docs: %s; deleted docs: %s (%.2f%%)", values>>, "DOCS_COUNT", FALSE, values),
                HoursResult("Refresh duration: total %.2f hours", d.refresh_millis),
                HoursResult("Flush duration: total %.2f hours", d.flush_millis),
                HoursResult("Indexing duration: total %.2f hours", d.index_millis),
                HoursResult("Search duration: total %.2f hours", d.query_millis) >>,
             <<>>)

(* ---------- shards.json and the size of cluster_state.json ---------- *)
\* shards_data is kept run-length encoded: a sequence of groups [n, shard],
\* n consecutive shards with the same store, docs and node
CountShards(groups, P(_)) ==
  SumSeq([k \in 1..Len(groups) |-> IF P(groups[k].shard) THEN groups[k].n ELSE 0])

\* the comparison of the oversharding rule
Oversharded(shards_count) == shards_count > 20000

\* small_shards_count > 0.1 * shards_count; on integers the float product
\* compares as 10 * small > total
ManySmall_ge(small_shards_count, shards_count) == 10 * small_shards_count >= shards_count

ManySmall(small_shards_count, shards_count) == 10 * small_shards_count > shards_count

\* s < 1 for s = int(store) / GB
IsSmallShard(s) == s.store.present /\ BelowGB(s.store, 1)

IsLargeShard(s) == s.store.present /\ AboveGB(s.store, 50)

check_shards(b) ==
  LET shards_data == b.shards
      shards_count == CountShards(shards_data, LAMBDA s : TRUE)
      over == IF Oversharded(shards_count)
                THEN Result(<<"Cluster has %s shards, that can cause some instability", shards_count>>,
                            "OVERSHARDING", TRUE, shards_count)
                ELSE Result(<<"Cluster has %s shards, that should not cause any issues", shards_count>>,
                            "OVERSHARDING", TRUE, shards_count)
      charts1 == << <<"text", "Shards by doc count (millions)">>,
                    <<"histogram", CountShards(shards_data, LAMBDA s : s.docs)>>,
                    <<"text", "Shards by disk size (GB)">>,
                    <<"histogram", CountShards(shards_data, LAMBDA s : s.store.present)>> >>
      small_shards_count == CountShards(shards_data, IsSmallShard)
      large_shards_count == CountShards(shards_data, IsLargeShard)
      small == IF ManySmall(small_shards_count, shards_count)
                 THEN Result(<<"Cluster has %s (%.2f%%) small (less than 1 GB) shards, shrinking or merging recommended",
                               small_shards_count, Ratio(small_shards_count, shards_count)>>,
                             "MANY_SMALL_SHARDS", TRUE, small_shards_count)
                 ELSE Result(<<"Cluster has %s (%.2f%%) small (less than 1 GB) shards",
                               small_shards_count, Ratio(small_shards_count, shards_count)>>,
                             "MANY_SMALL_SHARDS", FALSE, small_shards_count)
      large == Result(<<"Cluster has %s (%.2f%%) large (more than 50 GB) shards",
                        large_shards_count, Ratio(large_shards_count, shards_count)>>,
                      "MANY_LARGE_SHARDS", large_shards_count > 0, large_shards_count)
      mb == Ratio(b.cluster_state_size, 1048576)
      state == IF b.cluster_state_size > 50 * 1048576
                 THEN Result(<<"Cluster state size is %.2f MB; this might cause various issues across the cluster", mb>>,
                             "CLUSTER_STATE_SIZE", TRUE, mb)
                 ELSE Result(<<"Cluster state size is %.2f MB", mb>>, "CLUSTER_STATE_SIZE", FALSE, mb)
      nodes_of == {shards_data[k].shard.node : k \in {j \in 1..Len(shards_data) : shards_data[j].n > 0}}
      charts2 == << <<"text", "Nodes by shard count">>, <<"histogram", Cardinality(nodes_of)>> >>
  IN  \* the percentage in either message divides by shards_count
      IF shards_count = 0 THEN Outcome(TRUE, <<over>>, charts1)
      ELSE Outcome(FALSE, <<over, small, large, state>>, charts1 \o charts2)

(* ---------- fielddata_stats.json ---------- *)
\* field_sizes: [f, size] pairs in first-seen order, sizes summed over the nodes
RECURSIVE AddSize(_, _)
AddSize(sizes, fd) ==
  IF sizes = <<>> THEN <<[f |-> fd.f, size |-> fd.memory_size_in_bytes]>>
  ELSE IF Head(sizes).f = fd.f
    THEN <<[f |-> fd.f, size |-> Head(sizes).size + fd.memory_size_in_bytes]>> \o Tail(sizes)
  ELSE <<Head(sizes)>> \o AddSize(Tail(sizes), fd)

RECURSIVE FieldSizes(_, _)
FieldSizes(sizes, fds) ==
  IF fds = <<>> THEN sizes ELSE FieldSizes(AddSize(sizes, Head(fds)), Tail(fds))

RECURSIVE Flatten(_)
Flatten(ss) == IF ss = <<>> THEN <<>> ELSE Head(ss) \o Flatten(Tail(ss))

\* list.sort(key=size) (stable) followed by list.reverse()
RECURSIVE InsertStable(_, _)
InsertStable(sorted, x) ==
  IF sorted = <<>> THEN <<x>>
  ELSE IF x.size < Head(sorted).size THEN <<x>> \o sorted
  ELSE <<Head(sorted)>> \o InsertStable(Tail(sorted), x)

RECURSIVE SortBySize(_)
SortBySize(xs) ==
  IF xs = <<>> THEN <<>> ELSE InsertStable(SortBySize(SubSeq(xs, 1, Len(xs) - 1)), xs[Len(xs)])

Reverse(xs) == [k \in 1..Len(xs) |-> xs[Len(xs) + 1 - k]]

check_fielddata(b) ==
  LET field_sizes == FieldSizes(<<>>, Flatten(b.fielddata_stats))
      field_sizes_list == Reverse(SortBySize(field_sizes))
      top == Take(field_sizes_list, 10)
      rows == MapSeq(top, LAMBDA fs : <<fs.f, Ratio(fs.size, GB)>>)
      charts1 == << <<"text", "Fields cardinality">>, <<"table", rows>>,
                    <<"text", "Zero-data fields (consider removal from mappings)">> >>
  IN  \* line 307 reads the loop variable f, unbound when no loop body ever ran
      IF field_sizes = <<>> THEN Outcome(TRUE, <<>>, charts1)
      ELSE Outcome(FALSE, <<>>, charts1 \o << <<"text", " * ", top[Len(top)].f>> >>)

(* ---------- mapping.json ---------- *)
\* str.startswith
startswith(str, prefix) ==
  Len(str) >= Len(prefix) /\ SubSeq(str, 1, Len(prefix)) = prefix

Name_id == <<"_", "i", "d">>
Prefix_custom == <<"c", "u", "s", "t", "o", "m", "_">>

\* the entry a "dynamic" key contributes when the fields sit directly under mappings
DynamicEntry == [name |-> <<"d", "y", "n", "a", "m", "i", "c">>, isdict |-> FALSE,
                 type |-> "absent", fielddata |-> "absent"]

\* the listed entries of fields_data.items(), in document order (the further
\* m.extra.n fields, all of type m.extra.type, follow them)
FieldsData(m) ==
  IF m.shape = "properties" THEN m.fields
  ELSE IF m.dynamic # "absent" THEN <<DynamicEntry>> \o m.fields
  ELSE m.fields

FieldCount(m) == Len(FieldsData(m)) + m.extra.n

\* field == "_id" and field_data.get("type") != "keyword"
BadIdField_any(e) == e.type # "keyword"

BadIdField(e) == e.name = Name_id /\ e.type # "keyword"

DynamicEnabled(m) == IF m.dynamic = "absent" THEN TRUE ELSE m.dynamic = "true"

check_id_field_type(b) ==
  LET problematic_indices ==
        Flatten(MapSeq(b.mapping,
                       LAMBDA m : MapSeq(SelectSeq(FieldsData(m), BadIdField), LAMBDA e : m.index)))
      ids == OnePerOffender(problematic_indices,
               LAMBDA index : Result(<<"Field _id in index %s is not of type keyword", index>>,
                                     "NON_KEYWORD_ID_FIELD", TRUE, index),
               Result(<<"All _id fields are of type keyword">>, "NON_KEYWORD_ID_FIELD", FALSE, None))
      dynamic_mapping_enabled == MapSeq(SelectSeq(b.mapping, DynamicEnabled), LAMBDA m : m.index)
      dyn == IF dynamic_mapping_enabled # <<>>
               THEN IF Len(dynamic_mapping_enabled) < 10
                      THEN Result(<<"Dynamic mapping is enabled for indices: %s", dynamic_mapping_enabled>>,
                                  "DYNAMIC_MAPPING_ENABLED", TRUE, dynamic_mapping_enabled)
                      ELSE Result(<<"Dynamic mapping is enabled for %s indices", Len(dynamic_mapping_enabled)>>,
                                  "DYNAMIC_MAPPING_ENABLED", TRUE, dynamic_mapping_enabled)
               ELSE Result(<<"Dynamic mapping is disabled for all indices">>,
                           "DYNAMIC_MAPPING_ENABLED", FALSE, None)
  IN  Outcome(FALSE, ids \o <<dyn>>, <<>>)

\* the inner loop of check_custom_fields over one index, from entry k on:
\* [custom: the index was appended to custom_fields_indices (and the loop broke),
\*  raised: field_data.get was called on a non-dict, problems: (index, field) pairs]
RECURSIVE CustomWalk(_, _, _)
CustomWalk(m, es, acc) ==
  IF es = <<>> THEN [custom |-> FALSE, raised |-> FALSE, problems |-> acc]
  ELSE LET e == Head(es)
       IN  IF startswith(e.name, Prefix_custom)
             THEN [custom |-> TRUE, raised |-> FALSE, problems |-> acc]
           ELSE IF ~e.isdict
             THEN [custom |-> FALSE, raised |-> TRUE, problems |-> acc]
           ELSE IF e.type = "text" /\ e.fielddata = "True"
             THEN CustomWalk(m, Tail(es), Append(acc, <<m.index, e.name>>))
           ELSE CustomWalk(m, Tail(es), acc)

check_custom_fields(b) ==
  LET walks == MapSeq(b.mapping, LAMBDA m : [index |-> m.index, w |-> CustomWalk(m, FieldsData(m), <<>>)])
      custom_fields_indices == MapSeq(SelectSeq(walks, LAMBDA x : x.w.custom), LAMBDA x : x.index)
      problematic_fields == Flatten(MapSeq(walks, LAMBDA x : x.w.problems))
      custom == OnePerOffender(custom_fields_indices,
                  LAMBDA index : Result(<<"Custom fields found in index %s", index>>,
                                        "CUSTOM_FIELDS", FALSE, index),
                  Result(<<"No custom fields found in any index">>, "CUSTOM_FIELDS", FALSE, None))
      problems == OnePerOffender(problematic_fields,
                  LAMBDA p : Result(<<"Field %s in index %s has fielddata enabled, which can cause performance issues",
                                      p[2], p[1]>>,
                                    "PROBLEMATIC_FIELD_DATA_TYPE", TRUE, p),
                  Result(<<"No problematic field data types found">>,
                         "PROBLEMATIC_FIELD_DATA_TYPE", FALSE, None))
  IN  IF \E k \in 1..Len(walks) : walks[k].w.raised
        THEN Outcome(TRUE, <<>>, <<>>)
        ELSE Outcome(FALSE, custom \o problems, <<>>)

check_field_count(b) ==
  LET high_field_count_indices == SelectSeq(b.mapping, LAMBDA m : FieldCount(m) > 200)
  IN  Outcome(FALSE,
        OnePerOffender(high_field_count_indices,
          LAMBDA m : Result(<<"High field count in index %s: %d fields", m.index, FieldCount(m)>>,
                            "HIGH_FIELD_COUNT", TRUE, FieldCount(m)),
          Result(<<"Field count is within acceptable limits for all indices">>,
                 "HIGH_FIELD_COUNT", FALSE, None)),
        <<>>)

NestedCount(m) ==
  Len(SelectSeq(FieldsData(m), LAMBDA e : e.type = "nested"))
  + (IF m.extra.type = "nested" THEN m.extra.n ELSE 0)

check_nested_fields(b) ==
  LET high_nested_field_indices == SelectSeq(b.mapping, LAMBDA m : NestedCount(m) > 5)
  IN  \* field.get on the string value of a "dynamic" key raises AttributeError
      IF \E k \in 1..Len(b.mapping) :
           \E j \in 1..Len(FieldsData(b.mapping[k])) : ~FieldsData(b.mapping[k])[j].isdict
        THEN Outcome(TRUE, <<>>, <<>>)
        ELSE Outcome(FALSE,
               OnePerOffender(high_nested_field_indices,
                 LAMBDA m : Result(<<"High nested field count in index %s: %d nested fields",
                                     m.index, NestedCount(m)>>,
                                   "HIGH_NESTED_FIELD_COUNT", TRUE, NestedCount(m)),
                 Result(<<"Nested field count is within acceptable limits for all indices">>,
                        "HIGH_NESTED_FIELD_COUNT", FALSE, None)),
               <<>>)

(* ---------- nodes_hot_threads.txt ---------- *)
\* the threshold of "if len(hot_threads) > 5"
ExportThreshold == 5

\* what lines 490-507 append, given the extracted blocks; opening
\* hot_threads.txt for writing may fail, and the OSError is not caught
HotReport(hot, writable) ==
  IF Len(hot) > ExportThreshold
    THEN IF writable
           THEN Outcome(FALSE,
                  <<Result(<<"%s hot threads detected; details written to hot_threads.txt", Len(hot)>>,
                           "HOT_THREADS", TRUE, hot)>>, <<>>)
           ELSE Outcome(TRUE, <<>>, <<>>)
    ELSE Outcome(FALSE, <<Result(<<"%s hot threads detected", Len(hot)>>, "HOT_THREADS", FALSE, hot)>>, <<>>)

\* "\n".join(t)
RECURSIVE join(_)
join(t) ==
  IF t = <<>> THEN <<>>
  ELSE IF Len(t) = 1 THEN t[1]
  ELSE t[1] \o <<"\n">> \o join(Tail(t))

\* the content of hot_threads.txt after lines 490-494
SinkAfter(hot, writable, before) ==
  IF Len(hot) > ExportThreshold /\ writable
    THEN Flatten(MapSeq(hot, LAMBDA t : join(t) \o <<"\n", "\n">>))
    ELSE before

check_hot_threads(b) == HotReport(Scan(b.nodes_hot_threads).hot_threads, b.sink_writable)

(* ---------- the bundles the model draws ---------- *)
SeqsUpTo(S, n) == UNION {[1..k -> S] : k \in 0..n}

Repeat(x, n) == [k \in 1..n |-> x]

\* lines of nodes_hot_threads.txt, as f.readlines() returns them
Line_hot == <<" ", " ", "9", "5", ".", "0", "%", " ", "f", "o", "o", "\n">>
Line_line2 == <<" ", " ", "l", "i", "n", "e", "2", "\n">>
Line_blank == <<"\n">>
Line_cold == <<" ", " ", "1", "0", ".", "0", "%", " ", "b", "a", "r", "\n">>
Line_line3 == <<" ", " ", "l", "i", "n", "e", "3", "\n">>

LinePool == {Line_hot, Line_line2, Line_blank, Line_cold, Line_line3}

\* dumps longer than MaxLines: a block of more than BlockLimit lines, six
\* terminated hot blocks, one hot block followed by six blank lines
Dump_long == <<Line_hot>> \o Repeat(Line_line2, BlockLimit + 1) \o <<Line_blank>>
Dump_six == Flatten(Repeat(<<Line_hot, Line_blank>>, ExportThreshold + 1))
Dump_blanks == <<Line_hot>> \o Repeat(Line_blank, ExportThreshold + 1)
Dump_example == <<Line_hot, Line_line2, Line_blank, Line_cold, Line_line3, Line_blank>>

NamedDumps == {<<>>, Dump_example, Dump_long, Dump_six, Dump_blanks}

\* nodes of nodes_stats.json
NodeNames == <<"node-1", "node-2", "node-3", "node-4">>

Node_ok ==
  [heap_used_percent |-> 50, cpu_percent |-> 80, mem_used_percent |-> 80,
   available_in_bytes |-> Bytes(10, 0), free_in_bytes |-> Bytes(15, 0),
   total_in_bytes |-> Bytes(100, 0), operations |-> 1000000,
   thread_pool |-> [search |-> [rejected |-> 0, completed |-> 10]],
   gc |-> [young_millis |-> 1000, old_millis |-> 0]]

NodeProfiles ==
  { Node_ok,
    [Node_ok EXCEPT !.cpu_percent = 81],
    [Node_ok EXCEPT !.heap_used_percent = 76, !.mem_used_percent = 81],
    [Node_ok EXCEPT !.available_in_bytes = Bytes(9, GB - 1), !.free_in_bytes = Bytes(14, 0),
                    !.operations = 1000001],
    [Node_ok EXCEPT !.thread_pool = [search |-> [rejected |-> 5, completed |-> 95]]],
    [Node_ok EXCEPT !.gc = [young_millis |-> 1000, old_millis |-> 3599999]],
    [Node_ok EXCEPT !.gc = [young_millis |-> 1000, old_millis |-> 3600000], !.cpu_percent = 95] }

NodesStats ==
  { [k \in 1..Len(ps) |-> [name |-> NodeNames[k]] @@ ps[k]] : ps \in SeqsUpTo(NodeProfiles, MaxNodes) }

\* shards.json, run-length encoded
Shard_small == [store |-> [present |-> TRUE, gib |-> 0, rem |-> GB - 1], docs |-> TRUE, node |-> "node-1"]
Shard_1gb == [store |-> [present |-> TRUE, gib |-> 1, rem |-> 0], docs |-> TRUE, node |-> "node-1"]
Shard_large == [store |-> [present |-> TRUE, gib |-> 50, rem |-> 1], docs |-> TRUE, node |-> "node-2"]
Shard_unassigned == [store |-> [present |-> FALSE, gib |-> 0, rem |-> 0], docs |-> FALSE, node |-> "None"]

SmallCounts == {0, 1, 2, 9, 10, 11, 2000, 2001}
OtherCounts == {0, 1, 8, 9, 10, 89, 90, 91, 17999, 18000, 18001, 19990}

ShardInventories ==
  { << [n |-> a, shard |-> Shard_small], [n |-> c, shard |-> Shard_1gb],
       [n |-> d, shard |-> x] >> :
      a \in SmallCounts, c \in OtherCounts, d \in {0, 1}, x \in {Shard_large, Shard_unassigned} }

\* mapping.json
Name_body == <<"b", "o", "d", "y">>
Name_custom_a == <<"c", "u", "s", "t", "o", "m", "_", "a">>
Name_customer == <<"c", "u", "s", "t", "o", "m", "e", "r">>

Field(name, type, fielddata) ==
  [name |-> name, isdict |-> TRUE, type |-> type, fielddata |-> fielddata]

FieldPool ==
  { Field(Name_id, "text", "absent"), Field(Name_id, "keyword", "absent"),
    Field(Name_id, "absent", "absent"),
    Field(Name_body, "text", "True"), Field(Name_body, "text", "False"),
    Field(Name_body, "keyword", "True"),
    Field(Name_custom_a, "text", "True"), Field(Name_custom_a, "keyword", "absent"),
    Field(Name_customer, "text", "True"), Field(Name_customer, "nested", "absent") }

\* the keys of a JSON object are distinct
DistinctNames(fs) == \A j, k \in 1..Len(fs) : j # k => fs[j].name # fs[k].name

FieldLists == {fs \in SeqsUpTo(FieldPool, MaxFields) : DistinctNames(fs)}

NoExtra == [n |-> 0, type |-> "keyword"]

IndexDoc(index, shape, dynamic, fields, extra) ==
  [index |-> index, shape |-> shape, dynamic |-> dynamic, fields |-> fields, extra |-> extra]

OneIndexMappings ==
  { <<IndexDoc("idx1", sh, dy, fs, NoExtra)>> :
      sh \in {"properties", "flat"}, dy \in {"absent", "true", "false"}, fs \in FieldLists }

SecondDocs ==
  { IndexDoc("idx2", "properties", "false", <<Field(Name_id, "text", "absent")>>, NoExtra),
    IndexDoc("idx2", "flat", "absent", <<Field(Name_body, "text", "True"), Field(Name_id, "keyword", "absent")>>, NoExtra),
    IndexDoc("idx2", "properties", "true", <<Field(Name_custom_a, "keyword", "absent"), Field(Name_body, "text", "True")>>, NoExtra),
    IndexDoc("idx2", "properties", "false", <<>>, [n |-> 201, type |-> "keyword"]),
    IndexDoc("idx2", "properties", "false", <<>>, [n |-> 6, type |-> "nested"]) }

FirstDocs ==
  { IndexDoc("idx1", "properties", "false", <<Field(Name_id, "text", "absent"), Field(Name_body, "text", "True")>>, NoExtra),
    IndexDoc("idx1", "flat", "absent", <<Field(Name_id, "absent", "absent")>>, NoExtra),
    IndexDoc("idx1", "properties", "false", <<Field(Name_id, "keyword", "absent")>>, NoExtra) }

Mappings == {<<>>} \cup OneIndexMappings \cup { <<d1, d2>> : d1 \in FirstDocs, d2 \in SecondDocs }

\* settings.json
SettingsPool ==
  { [refresh_interval |-> "absent", number_of_replicas |-> "absent"],
    [refresh_interval |-> "1s", number_of_replicas |-> "1"],
    [refresh_interval |-> "30s", number_of_replicas |-> "0"],
    [refresh_interval |-> "", number_of_replicas |-> "2"] }

IndexNames == <<"idx1", "idx2", "idx3", "idx4">>

SettingsDocs ==
  { [k \in 1..Len(ss) |-> [index |-> IndexNames[k]] @@ ss[k]] : ss \in SeqsUpTo(SettingsPool, 3) }

\* fielddata_stats.json: per node, the fields it reports
FielddataDocs ==
  { <<>>, << <<>> >>, << <<>>, <<>> >>,
    << <<[f |-> "body", memory_size_in_bytes |-> 10]>> >>,
    << <<[f |-> "body", memory_size_in_bytes |-> 10], [f |-> "title", memory_size_in_bytes |-> 30]>>,
       <<[f |-> "body", memory_size_in_bytes |-> 20]>> >> }

IndicesStats(count, deleted) ==
  [count |-> count, deleted |-> deleted, refresh_millis |-> 3600000, flush_millis |-> 1800000,
   index_millis |-> 7200000, query_millis |-> 0]

\* a healthy bundle with every artifact present; the run over it completes
BaseBundle ==
  [ cluster_health |-> [status |-> "green", unassigned_shards |-> 0],
    nodes |-> <<[using_compressed_ordinary_object_pointers |-> "true"]>>,
    nodes_stats |-> <<[name |-> NodeNames[1]] @@ Node_ok>>,
    settings |-> <<[index |-> "idx1", refresh_interval |-> "30s", number_of_replicas |-> "1"]>>,
    indices_stats |-> IndicesStats(100, 5),
    shards |-> <<[n |-> 3, shard |-> Shard_1gb]>>,
    cluster_state_size |-> 1048576,
    fielddata_stats |-> << <<[f |-> "body", memory_size_in_bytes |-> 10]>> >>,
    mapping |-> <<IndexDoc("idx1", "properties", "false", <<Field(Name_id, "keyword", "absent")>>, NoExtra)>>,
    nodes_hot_threads |-> <<>>,
    pending_tasks |-> [present |-> FALSE, tasks |-> 0],
    sink_writable |-> TRUE ]

\* BaseBundle with one artifact replaced
Bundles ==
  {[BaseBundle EXCEPT !.cluster_health = [status |-> st, unassigned_shards |-> u]] :
      st \in {"green", "yellow", "red"}, u \in {0, 2}}
  \cup {[BaseBundle EXCEPT !.nodes = ns] :
      ns \in SeqsUpTo({[using_compressed_ordinary_object_pointers |-> v] : v \in {"true", "false"}}, 2)}
  \cup {[BaseBundle EXCEPT !.nodes_stats = ns] : ns \in NodesStats}
  \cup {[BaseBundle EXCEPT !.settings = sd] : sd \in SettingsDocs}
  \cup {[BaseBundle EXCEPT !.indices_stats = IndicesStats(c, d)] : c \in {0, 100}, d \in {0, 5}}
  \cup {[BaseBundle EXCEPT !.shards = sh, !.cluster_state_size = sz] :
      sh \in ShardInventories, sz \in {52428800, 52428801}}
  \cup {[BaseBundle EXCEPT !.fielddata_stats = fd] : fd \in FielddataDocs}
  \cup {[BaseBundle EXCEPT !.mapping = mp] : mp \in Mappings}
  \cup {[BaseBundle EXCEPT !.nodes_hot_threads = d, !.sink_writable = w] :
      d \in NamedDumps, w \in BOOLEAN}
  \cup {[BaseBundle EXCEPT !.pending_tasks = [present |-> TRUE, tasks |-> t]] : t \in {0, 3}}

\* the dumps of the line-by-line specification
HotBundles ==
  {[BaseBundle EXCEPT !.nodes_hot_threads = d] : d \in SeqsUpTo(LinePool, MaxLines)}
  \cup {[BaseBundle EXCEPT !.nodes_hot_threads = d, !.sink_writable = w] :
      d \in NamedDumps, w \in BOOLEAN}

(* ---------- state ---------- *)
VARIABLES
  bundle,       \* the artifacts under root_path (never written)
  results,      \* Analyzer.results, the class-level list
  charts,       \* Analyzer.charts, the class-level list
  analyzers,    \* Analyzer instances constructed so far
  status,       \* "constructed", "checking", "raised", "returned", "rendered"
  pc,           \* position in the rule order of check(), 0 outside check()
  runs,         \* check() calls started
  held,         \* results as they stood at each return of check()
  good, bad,    \* the partitions render() built last
  console,      \* what render() printed
  i,            \* lines of hot_threads_raw consumed by the loop
  hot_threads, bad_lines, bad_block,   \* locals of check_hot_threads
  sink          \* content of hot_threads.txt

vars == <<bundle, results, charts, analyzers, status, pc, runs, held, good, bad, console,
          i, hot_threads, bad_lines, bad_block, sink>>

hotvars == <<i, hot_threads, bad_lines, bad_block>>
rendervars == <<good, bad, console>>

\* the order of the calls in check()
CheckOrder ==
  << "check_cluster_health", "check_memory_usage", "check_unassigned_shards",
     "check_disk_watermark", "check_jvm_heap_usage", "check_pending_tasks",
     "check_cpu_usage", "check_disk_usage", "check_nodes", "check_settings",
     "check_indices", "check_shards", "check_fielddata", "check_field_count",
     "check_nested_fields", "check_hot_threads", "check_id_field_type",
     "check_custom_fields", "check_index_settings", "check_cpu_usage", "check_disk_usage" >>

HotPc == 16

\* class attributes results = [] and charts = []; __init__ sets only root_path and console
InitCommon ==
  /\ results = <<>>
  /\ charts = <<>>
  /\ analyzers = 1
  /\ held = <<>>
  /\ good = <<>>
  /\ bad = <<>>
  /\ console = <<>>
  /\ i = 0
  /\ hot_threads = <<>>
  /\ bad_lines = <<>>
  /\ bad_block = FALSE
  /\ sink = <<>>

Init ==
  /\ bundle \in Bundles
  /\ status = "constructed"
  /\ pc = 0
  /\ runs = 0
  /\ InitCommon

\* Analyzer(root_path) again, in the same process: nothing of the class is reset
Analyzer_init ==
  /\ status \in {"returned", "rendered"}
  /\ analyzers < MaxRuns
  /\ analyzers' = analyzers + 1
  /\ UNCHANGED <<bundle, results, charts, status, pc, runs, held, good, bad, console,
                 i, hot_threads, bad_lines, bad_block, sink>>

\* entering check()
check ==
  /\ status \in {"constructed", "returned", "rendered"}
  /\ runs < MaxRuns
  /\ status' = "checking"
  /\ pc' = 1
  /\ runs' = runs + 1
  /\ UNCHANGED <<bundle, results, charts, analyzers, held, good, bad, console,
                 i, hot_threads, bad_lines, bad_block, sink>>

At(rule) == status = "checking" /\ pc \in 1..Len(CheckOrder) /\ CheckOrder[pc] = rule

\* one call of check(): the rule appends to the class lists; an exception
\* leaves check(), the last call is followed by "return self"
Apply(o) ==
  /\ results' = results \o o.out
  /\ charts' = charts \o o.charts
  /\ IF o.raised
       THEN status' = "raised" /\ pc' = pc /\ held' = held
       ELSE IF pc = Len(CheckOrder)
         THEN status' = "returned" /\ pc' = 0 /\ held' = Append(held, results')
         ELSE status' = "checking" /\ pc' = pc + 1 /\ held' = held
  /\ UNCHANGED <<bundle, analyzers, runs, good, bad, console>>

Rule(rule, o) == At(rule) /\ Apply(o) /\ UNCHANGED <<i, hot_threads, bad_lines, bad_block, sink>>

Do_check_cluster_health == Rule("check_cluster_health", check_cluster_health(bundle))
Do_check_memory_usage == Rule("check_memory_usage", check_memory_usage(bundle))
Do_check_unassigned_shards == Rule("check_unassigned_shards", check_unassigned_shards(bundle))
Do_check_disk_watermark == Rule("check_disk_watermark", check_disk_watermark(bundle))
Do_check_jvm_heap_usage == Rule("check_jvm_heap_usage", check_jvm_heap_usage(bundle))
Do_check_pending_tasks == Rule("check_pending_tasks", check_pending_tasks(bundle))
Do_check_cpu_usage == Rule("check_cpu_usage", check_cpu_usage(bundle))
Do_check_disk_usage == Rule("check_disk_usage", check_disk_usage(bundle))
Do_check_nodes == Rule("check_nodes", check_nodes(bundle))
Do_check_settings == Rule("check_settings", check_settings(bundle))
Do_check_indices == Rule("check_indices", check_indices(bundle))
Do_check_shards == Rule("check_shards", check_shards(bundle))
Do_check_fielddata == Rule("check_fielddata", check_fielddata(bundle))
Do_check_field_count == Rule("check_field_count", check_field_count(bundle))
Do_check_nested_fields == Rule("check_nested_fields", check_nested_fields(bundle))
Do_check_id_field_type == Rule("check_id_field_type", check_id_field_type(bundle))
Do_check_custom_fields == Rule("check_custom_fields", check_custom_fields(bundle))
Do_check_index_settings == Rule("check_index_settings", check_index_settings(bundle))

\* check_hot_threads as one call: the loop over every line, then lines 490-507
Do_check_hot_threads ==
  LET st == Scan(bundle.nodes_hot_threads)
  IN  /\ At("check_hot_threads")
      /\ i' = Len(bundle.nodes_hot_threads)
      /\ hot_threads' = st.hot_threads
      /\ bad_lines' = st.bad_lines
      /\ bad_block' = st.bad_block
      /\ sink' = SinkAfter(st.hot_threads, bundle.sink_writable, sink)
      /\ Apply(check_hot_threads(bundle))

(* ---------- render ---------- *)
\* list(filter(lambda r: r.is_good(), self.results))
GoodOf(rs) == SelectSeq(rs, is_good)

\* a filter that keeps only the first bad Result of each code
BadOf_dedup(rs) ==
  LET keep == {k \in 1..Len(rs) : is_bad(rs[k]) /\ \A j \in 1..(k - 1) : rs[j].code # rs[k].code}
      F[k \in 0..Len(rs)] ==
        IF k = 0 THEN <<>> ELSE IF k \in keep THEN Append(F[k - 1], rs[k]) ELSE F[k - 1]
  IN  F[Len(rs)]

\* list(filter(lambda r: r.is_bad(), self.results))
BadOf(rs) == SelectSeq(rs, is_bad)

Printed(rs, ch) ==
  (IF BadOf(rs) # <<>>
     THEN << <<"bold red", "BAD:">> >> \o MapSeq(BadOf(rs), LAMBDA r : <<"bold red", " * ", r.message>>)
     ELSE <<>>)
  \o (IF ch # <<>>
        THEN << <<"bold yellow", "CHARTS:">> >> \o MapSeq(ch, LAMBDA c : <<"yellow", c>>)
        ELSE <<>>)
  \o (IF GoodOf(rs) # <<>>
        THEN << <<"bold green", "GOOD:">> >> \o MapSeq(GoodOf(rs), LAMBDA r : <<"green", " * ", r.message>>)
        ELSE <<>>)

render ==
  /\ status = "returned"
  /\ good' = GoodOf(results)
  /\ bad' = BadOf(results)
  /\ console' = console \o Printed(results, charts)
  /\ status' = "rendered"
  /\ UNCHANGED <<bundle, results, charts, analyzers, pc, runs, held,
                 i, hot_threads, bad_lines, bad_block, sink>>

Next ==
  \/ Analyzer_init
  \/ check
  \/ Do_check_cluster_health
  \/ Do_check_memory_usage
  \/ Do_check_unassigned_shards
  \/ Do_check_disk_watermark
  \/ Do_check_jvm_heap_usage
  \/ Do_check_pending_tasks
  \/ Do_check_cpu_usage
  \/ Do_check_disk_usage
  \/ Do_check_nodes
  \/ Do_check_settings
  \/ Do_check_indices
  \/ Do_check_shards
  \/ Do_check_fielddata
  \/ Do_check_field_count
  \/ Do_check_nested_fields
  \/ Do_check_hot_threads
  \/ Do_check_id_field_type
  \/ Do_check_custom_fields
  \/ Do_check_index_settings
  \/ render

Spec == Init /\ [][Next]_vars

(* ---------- check_hot_threads line by line ---------- *)
\* check() has reached check_hot_threads and readlines() has returned
InitHot ==
  /\ bundle \in HotBundles
  /\ status = "checking"
  /\ pc = HotPc
  /\ runs = 1
  /\ InitCommon

NextLine == bundle.nodes_hot_threads[i + 1]

Locals == [hot_threads |-> hot_threads, bad_lines |-> bad_lines, bad_block |-> bad_block]

\* one iteration of the for-loop
Iterate ==
  LET st == LoopBody(Locals, NextLine)
  IN  /\ i' = i + 1
      /\ hot_threads' = st.hot_threads
      /\ bad_lines' = st.bad_lines
      /\ bad_block' = st.bad_block
      /\ UNCHANGED <<bundle, results, charts, analyzers, status, pc, runs, held,
                     good, bad, console, sink>>

InLoop == At("check_hot_threads") /\ i < Len(bundle.nodes_hot_threads)

\* line 477: a blank line while bad_lines holds a block
EndOfBlock ==
  /\ InLoop
  /\ strip(NextLine) = <<>> /\ any_str(bad_lines)
  /\ Iterate

\* line 482: a line the pattern matches
HotHeader ==
  /\ InLoop
  /\ ~(strip(NextLine) = <<>> /\ any_str(bad_lines))
  /\ bad_re_match(NextLine)
  /\ Iterate

\* line 487: any other line once bad_block is set
AppendLine ==
  /\ InLoop
  /\ ~(strip(NextLine) = <<>> /\ any_str(bad_lines))
  /\ ~bad_re_match(NextLine)
  /\ bad_block
  /\ Iterate

\* any other line before the first hot header
SkipLine ==
  /\ InLoop
  /\ ~(strip(NextLine) = <<>> /\ any_str(bad_lines))
  /\ ~bad_re_match(NextLine)
  /\ ~bad_block
  /\ Iterate

\* lines 490-507, after the loop
HotFinish ==
  /\ At("check_hot_threads")
  /\ i = Len(bundle.nodes_hot_threads)
  /\ sink' = SinkAfter(hot_threads, bundle.sink_writable, sink)
  /\ Apply(HotReport(hot_threads, bundle.sink_writable))
  /\ UNCHANGED <<i, hot_threads, bad_lines, bad_block>>

NextHot == EndOfBlock \/ HotHeader \/ AppendLine \/ SkipLine \/ HotFinish

SpecHot == InitHot /\ [][NextHot]_vars

(* ---------- helpers of the properties ---------- *)
CountIn(rs, P(_)) == Cardinality({k \in 1..Len(rs) : P(rs[k])})

\* what the step that is being taken appends to results
Appended == SubSeq(results', Len(results) + 1, Len(results'))

\* the Finding sequence after the first complete run of check()
FirstRunDone == Len(held) >= 1

ShardTotal == SumSeq([k \in 1..Len(bundle.shards) |-> bundle.shards[k].n])

ShardsBelow1GB ==
  SumSeq([k \in 1..Len(bundle.shards) |->
            IF bundle.shards[k].shard.store.present /\ bundle.shards[k].shard.store.gib = 0
              THEN bundle.shards[k].n ELSE 0])

SummedRejected == SumSeq([k \in 1..Len(bundle.nodes_stats) |-> bundle.nodes_stats[k].thread_pool.search.rejected])
SummedCompleted == SumSeq([k \in 1..Len(bundle.nodes_stats) |-> bundle.nodes_stats[k].thread_pool.search.completed])
OldGcMillis == SumSeq([k \in 1..Len(bundle.nodes_stats) |-> bundle.nodes_stats[k].gc.old_millis])

Lines == bundle.nodes_hot_threads
IsBlank(l) == strip(l) = <<>>

(* ---------- C1 ---------- *)
\* C1: every emitted hot-thread block is the trimmed hot header line at some
\* position p followed by the trimmed non-blank lines up to the blank line
\* that terminates it, cut to the first 10; and once the example dump is
\* scanned, hot_threads is exactly the one block ("95.0% foo", "line2").
C1_BlocksAreHotBlocks ==
  /\ \A n \in 1..Len(hot_threads) :
       \E p \in 1..i : \E q \in p..(i - 1) :
         /\ bad_re_match(Lines[p])
         /\ \A k \in (p + 1)..q : ~IsBlank(Lines[k])
         /\ IsBlank(Lines[q + 1])
         /\ hot_threads[n] = Take([k \in 1..(q - p + 1) |-> strip(Lines[p + k - 1])], 10)
  /\ (Lines = Dump_example /\ i = Len(Lines))
       => hot_threads = << <<strip(Line_hot), strip(Line_line2)>> >>

(* ---------- C2 ---------- *)
\* C2: the Findings held after a second check() on the unchanged bundle are
\* exactly those held after the first, in the same order.
C2_SecondRunSameFindings == Len(held) >= 2 => held[2] = held[1]

(* ---------- C3 ---------- *)
\* C3: an OVERSHARDING Finding is ATTENTION if and only if the shard count
\* is above 20000.
C3_OvershardingIff ==
  \A k \in 1..Len(results) :
    results[k].code = "OVERSHARDING" => (results[k].bad <=> ShardTotal > 20000)

(* ---------- C4 ---------- *)
\* C4: after a complete run there is exactly one ATTENTION HIGH_CPU_USAGE
\* Finding for each node above 80 percent CPU and none for the other nodes.
C4_OneCpuFindingPerNode ==
  FirstRunDone =>
    \A n \in 1..Len(bundle.nodes_stats) :
      CountIn(held[1], LAMBDA r : r.code = "HIGH_CPU_USAGE" /\ r.bad
                                  /\ r.message[2] = bundle.nodes_stats[n].name)
        = (IF bundle.nodes_stats[n].cpu_percent > 80 THEN 1 ELSE 0)

(* ---------- C5 ---------- *)
\* C5: every text field with fielddata enabled, in every index, has exactly
\* one ATTENTION PROBLEMATIC_FIELD_DATA_TYPE Finding with value (index, field),
\* whatever the other fields of the index and their order.
C5_OneFindingPerFielddataField ==
  FirstRunDone =>
    \A n \in 1..Len(bundle.mapping) : \A j \in 1..Len(bundle.mapping[n].fields) :
      LET m == bundle.mapping[n]
          e == m.fields[j]
      IN  (e.type = "text" /\ e.fielddata = "True") =>
            CountIn(held[1], LAMBDA r : r.code = "PROBLEMATIC_FIELD_DATA_TYPE" /\ r.bad
                                        /\ r.value = <<m.index, e.name>>) = 1

(* ---------- C6 ---------- *)
\* C6: after a complete run there is exactly one ATTENTION
\* THREAD_POOL_REJECTIONS Finding when the rejected count of the pool, summed
\* over all nodes, is above 0, and it carries the summed counts.
C6_ThreadPoolRejections ==
  FirstRunDone =>
    (SummedRejected > 0 =>
       CountIn(held[1], LAMBDA r : r.code = "THREAD_POOL_REJECTIONS" /\ r.bad
                                   /\ r.value = <<SummedRejected, SummedCompleted>>) = 1)

(* ---------- C7 ---------- *)
\* C7: a complete run holds an ATTENTION Finding with code GC if and only if
\* the cumulative old-generation collection time is at least 3,600,000 ms.
C7_GcIff ==
  FirstRunDone =>
    ((\E k \in 1..Len(held[1]) : held[1][k].code = "GC" /\ held[1][k].bad)
       <=> OldGcMillis >= 3600000)

(* ---------- C8 ---------- *)
\* C8: on an inventory of at least one shard, check_shards appends exactly one
\* MANY_SMALL_SHARDS Finding, and it is ATTENTION if and only if ten times the
\* number of shards below 1 GB exceeds the total shard count.
C8_SmallShards ==
  [][ (At("check_shards") /\ ShardTotal >= 1) =>
        /\ CountIn(Appended, LAMBDA r : r.code = "MANY_SMALL_SHARDS") = 1
        /\ \A k \in 1..Len(Appended) :
             Appended[k].code = "MANY_SMALL_SHARDS" =>
               /\ Appended[k].bad <=> (10 * ShardsBelow1GB > ShardTotal)
               /\ Appended[k].value = ShardsBelow1GB ]_vars

\* 11 of 100 shards below 1 GB were flagged
C8_Witness ==
  /\ ShardTotal = 100 /\ ShardsBelow1GB = 11
  /\ runs = 1 /\ pc = 13
  /\ \E k \in 1..Len(results) :
       results[k].code = "MANY_SMALL_SHARDS" /\ results[k].bad /\ results[k].value = 11

(* ---------- C9 ---------- *)
\* C9: in both mapping shapes, check_id_field_type appends exactly one
\* ATTENTION NON_KEYWORD_ID_FIELD Finding, with the index name as value, for
\* each index whose _id field is not of type keyword, and no ATTENTION Finding
\* of that code for any other index.
HasBadId(m) == \E j \in 1..Len(m.fields) : m.fields[j].name = Name_id /\ m.fields[j].type # "keyword"

C9_IdFieldType ==
  [][ At("check_id_field_type") =>
        /\ \A n \in 1..Len(bundle.mapping) :
             CountIn(Appended, LAMBDA r : r.code = "NON_KEYWORD_ID_FIELD" /\ r.bad
                                          /\ r.value = bundle.mapping[n].index)
               = (IF HasBadId(bundle.mapping[n]) THEN 1 ELSE 0)
        /\ \A k \in 1..Len(Appended) :
             (Appended[k].code = "NON_KEYWORD_ID_FIELD" /\ Appended[k].bad) =>
               \E n \in 1..Len(bundle.mapping) : Appended[k].value = bundle.mapping[n].index ]_vars

\* two indices, one in each shape, only idx1 with a non-keyword _id
C9_Witness ==
  /\ Len(bundle.mapping) = 2
  /\ bundle.mapping[1].shape = "properties" /\ HasBadId(bundle.mapping[1])
  /\ bundle.mapping[2].shape = "flat" /\ ~HasBadId(bundle.mapping[2])
  /\ runs = 1 /\ pc = 18
  /\ CountIn(results, LAMBDA r : r.code = "NON_KEYWORD_ID_FIELD" /\ r.bad) = 1
  /\ \E k \in 1..Len(results) :
       results[k].code = "NON_KEYWORD_ID_FIELD" /\ results[k].bad /\ results[k].value = "idx1"

(* ---------- C10 ---------- *)
\* rs is an order-preserving merge of g and b, each element used exactly once
RECURSIVE IsMerge(_, _, _)
IsMerge(rs, g, b) ==
  IF rs = <<>> THEN g = <<>> /\ b = <<>>
  ELSE \/ g # <<>> /\ Head(g) = Head(rs) /\ IsMerge(Tail(rs), Tail(g), b)
       \/ b # <<>> /\ Head(b) = Head(rs) /\ IsMerge(Tail(rs), g, Tail(b))

\* C10: after render the ok and attention partitions hold only good and only
\* bad Findings, and the accumulated sequence is an order-preserving merge of
\* the two: every Finding is in exactly one partition, once, in emission
\* order, repeated codes included.
C10_Partition ==
  status = "rendered" =>
    /\ \A k \in 1..Len(good) : ~good[k].bad
    /\ \A k \in 1..Len(bad) : bad[k].bad
    /\ Len(good) + Len(bad) = Len(results)
    /\ IsMerge(results, good, bad)

\* a rendered report with a repeated ATTENTION code and an OK Finding between
C10_Witness ==
  /\ status = "rendered"
  /\ \E j, k, l \in 1..Len(results) :
       /\ j < k /\ k < l
       /\ results[j].bad /\ ~results[k].bad /\ results[l].bad
       /\ results[j].code = results[l].code
  /\ Len(bad) >= 2 /\ Len(good) >= 1

(* ---------- C11 ---------- *)
\* C11: when check_hot_threads extracts more than 5 blocks and hot_threads.txt
\* cannot be written, the call still appends the HOT_THREADS Finding and
\* check() goes on to the next rule.
C11_SinkFailureNotFatal ==
  [][ (At("check_hot_threads")
       /\ Len(Scan(Lines).hot_threads) > 5
       /\ ~bundle.sink_writable) =>
        /\ status' # "raised"
        /\ CountIn(Appended, LAMBDA r : r.code = "HOT_THREADS") = 1 ]_vars

(* ---------- C12 ---------- *)
\* indices on the default refresh interval: the setting is absent or "1s"
DefaultRefreshCount ==
  Cardinality({k \in 1..Len(bundle.settings) :
                 bundle.settings[k].refresh_interval \in {"absent", "1s"}})

\* C12: the REFRESH_INTERVAL Finding that check_settings appends has as value
\* the number of indices on the default 1s interval, and its message is the
\* "consider raising" one exactly when that number exceeds 10% of the indices.
C12_RefreshCountsDefaultOnly ==
  [][ At("check_settings") =>
        \A k \in 1..Len(Appended) :
          Appended[k].code = "REFRESH_INTERVAL" =>
            /\ Appended[k].value = DefaultRefreshCount
            /\ (Appended[k].message[1]
                  = "refresh_interval is default 1s for %s indices (%.2f%%), consider raising to 30s or 60s to speed up ingestion")
                 <=> (10 * DefaultRefreshCount > Len(bundle.settings)) ]_vars

(* ---------- C13 ---------- *)
\* positions of the hot-percentage lines among the first n lines
HotPositions(n) == {p \in 1..n : bad_re_match(Lines[p])}

\* C13: at every point of the scan the number of emitted blocks is at most
\* the number of hot-percentage lines read so far, and a line read after a
\* block was emitted and before the next hot-percentage line emits nothing.
C13_OneBlockPerHotLine ==
  /\ Len(hot_threads) <= Cardinality(HotPositions(i))
  /\ \A t \in 1..i :
       (t > 1 /\ IsBlank(Lines[t - 1]) /\ HotPositions(t - 1) # {} /\ ~bad_re_match(Lines[t]))
         => Len(ScanFrom(LoopInit, SubSeq(Lines, 1, t), 1).hot_threads)
              = Len(ScanFrom(LoopInit, SubSeq(Lines, 1, t - 1), 1).hot_threads)

(* ---------- C14 ---------- *)
\* the blank lines read so far that follow some hot-percentage line
Terminators == {t \in 1..i : IsBlank(Lines[t]) /\ HotPositions(t - 1) # {}}

NthTerminator(n) == CHOOSE t \in Terminators : Cardinality({u \in Terminators : u <= t}) = n

LastHotBefore(t) == CHOOSE p \in HotPositions(t - 1) : \A q \in HotPositions(t - 1) : q <= p

\* the trimmed non-blank lines at positions a..b
RECURSIVE TrimmedNonBlank(_, _)
TrimmedNonBlank(a, b) ==
  IF a > b THEN <<>>
  ELSE IF IsBlank(Lines[a]) THEN TrimmedNonBlank(a + 1, b)
  ELSE <<strip(Lines[a])>> \o TrimmedNonBlank(a + 1, b)

\* C14: blocks are emitted only at blank lines: the n-th emitted block ends at
\* the n-th blank line that follows a hot-percentage line, and holds only
\* lines from the last hot-percentage line before that blank line on (cut to
\* 10), so the lines buffered before a restarting hot line are in no block;
\* nothing is emitted at end of input: the HOT_THREADS Finding carries
\* exactly the blocks the blank lines emitted.
C14_OnlyTerminatedBlocks ==
  /\ Len(hot_threads) = Cardinality(Terminators)
  /\ \A n \in 1..Len(hot_threads) :
       LET t == NthTerminator(n)
           p == LastHotBefore(t)
       IN  hot_threads[n] = Take(<<strip(Lines[p])>> \o TrimmedNonBlank(p + 1, t - 1), 10)
  /\ \A k \in 1..Len(results) :
       results[k].code = "HOT_THREADS" =>
         (i = Len(Lines) /\ results[k].value = hot_threads)

\* an open block restarted by a second hot line, its successor emitted, and a
\* third block left open at end of input
C14_Witness ==
  /\ Lines = <<Line_hot, Line_line2, Line_hot, Line_line3, Line_blank, Line_hot>>
  /\ i = Len(Lines)
  /\ hot_threads = << <<strip(Line_hot), strip(Line_line3)>> >>
  /\ bad_lines = <<strip(Line_hot)>>
  /\ Len(results) = 1 /\ results[1].code = "HOT_THREADS" /\ results[1].value = hot_threads

(* ---------- C15 ---------- *)
\* C15: over a bundle with every required artifact present, no rule raises:
\* check() is never left by an exception (the sink being writable).
C15_NoRuleAborts == bundle.sink_writable => status # "raised"

====
